---------------------------- MODULE Spec2Model ----------------------------
(***************************************************************************)
(* A model of the stimpl interpreter (stimpl/runtime.py): the persistent   *)
(* State chain and the recursive evaluate function, run as a stack         *)
(* machine.  Every activation of evaluate is a frame that holds its        *)
(* expression, the state it was given, its local variables and its         *)
(* position; a step is what one activation does between two calls,         *)
(* returns or raises.  State objects live in an append-only heap and are   *)
(* referred to by index, so that identity of environments is observable.   *)
(*                                                                         *)
(* Python values are records that carry their class: None, int, float,     *)
(* str and bool.  A float is modelled by an exact rational n/d (d > 0, in  *)
(* lowest terms); a str by its sequence of code points; a bool is,         *)
(* as in Python, also the integer 0 or 1.                                  *)
(***************************************************************************)
EXTENDS Integers, Sequences, FiniteSets, TLC

VARIABLES
    program,    \* the expression handed to evaluate by the caller
    state,      \* the State handed to evaluate by the caller (a heap reference)
    heap,       \* every State object constructed so far, in construction order
    stack,      \* the activations of evaluate, the innermost last
    ret,        \* <<>> or <<triple>>: what the callee just returned to the top frame
    out,        \* the lines written to standard output
    status,     \* "running", "returned" or "raised"
    results     \* the outcome of every finished call of the caller, oldest first

vars == <<program, state, heap, stack, ret, out, status, results>>

---------------------------------------------------------------------------
(* Bounds of the model.                                                    *)

MaxInt == 2         \* integer literals range over -MaxInt .. MaxInt
MaxN == 3           \* the counting loop runs for N in 0 .. MaxN
MaxRuns == 2        \* how often the caller evaluates the program
MaxDiv == 5         \* the division table ranges over -MaxDiv .. MaxDiv

\* no State is constructed beyond this heap size, which the programs below
\* stay under
MaxHeap == MaxRuns * (MaxN + 4) + 4

---------------------------------------------------------------------------
(* Python values.                                                          *)

Abs(i) == IF i < 0 THEN -i ELSE i

RECURSIVE Gcd(_, _)
Gcd(a, b) == IF b = 0 THEN a ELSE Gcd(b, a % b)

NoneV == [py |-> "NoneType", n |-> 0, d |-> 1, s |-> <<>>, b |-> FALSE]
IntV(i) == [py |-> "int", n |-> i, d |-> 1, s |-> <<>>, b |-> FALSE]
BoolV(t) == [py |-> "bool", n |-> IF t THEN 1 ELSE 0, d |-> 1, s |-> <<>>, b |-> t]
StrV(text) == [py |-> "str", n |-> 0, d |-> 1, s |-> text, b |-> FALSE]
FloatV(num, den) ==
    LET sg == IF den < 0 THEN -1 ELSE 1
        g == Gcd(Abs(num), Abs(den))
    IN  [py |-> "float", n |-> (sg * num) \div g, d |-> (sg * den) \div g,
         s |-> <<>>, b |-> FALSE]

IsNumber(v) == v.py \in {"int", "float", "bool"}

\* bool(v)
PyTruthy(v) ==
    CASE v.py = "NoneType" -> FALSE
      [] v.py = "str" -> v.s # <<>>
      [] OTHER -> v.n # 0

\* a == b
PyEq(a, b) ==
    IF IsNumber(a) /\ IsNumber(b) THEN a.n * b.d = b.n * a.d
    ELSE IF a.py = "str" /\ b.py = "str" THEN a.s = b.s
    ELSE a.py = "NoneType" /\ b.py = "NoneType"

RECURSIVE SeqLess(_, _)
SeqLess(s, t) ==
    IF t = <<>> THEN FALSE
    ELSE IF s = <<>> THEN TRUE
    ELSE IF s[1] # t[1] THEN s[1] < t[1]
    ELSE SeqLess(Tail(s), Tail(t))

\* a < b, for two values of one class among int, float, bool and str
PyLtWrong(a, b) ==
    IF a.py = "str" THEN SeqLess(a.s, b.s) \/ a.s = b.s
    ELSE a.n * b.d <= b.n * a.d
PyLt(a, b) ==
    IF a.py = "str" THEN SeqLess(a.s, b.s) ELSE a.n * b.d < b.n * a.d

PyLe(a, b) == PyLt(a, b) \/ PyEq(a, b)
PyGt(a, b) == PyLt(b, a)
PyGe(a, b) == PyLt(b, a) \/ PyEq(a, b)

\* a + b, for two values of one class among int, float and str
PyAdd(a, b) ==
    CASE a.py = "int" -> IntV(a.n + b.n)
      [] a.py = "float" -> FloatV(a.n * b.d + b.n * a.d, a.d * b.d)
      [] OTHER -> StrV(a.s \o b.s)

\* a - b and a * b, for two ints or two floats
PySub(a, b) ==
    IF a.py = "int" THEN IntV(a.n - b.n)
    ELSE FloatV(a.n * b.d - b.n * a.d, a.d * b.d)

PyMul(a, b) ==
    IF a.py = "int" THEN IntV(a.n * b.n) ELSE FloatV(a.n * b.n, a.d * b.d)

\* a // b on ints, b # 0: the quotient of the magnitudes, moved down by one
\* when the signs differ and the division is not exact
TruncDiv(a, b) ==
    LET q == Abs(a) \div Abs(b)
    IN  IF (a < 0) = (b < 0) THEN q ELSE -q
PyFloorDiv(a, b) ==
    LET q == Abs(a) \div Abs(b)
        r == Abs(a) % Abs(b)
    IN  IF (a < 0) = (b < 0) THEN q
        ELSE IF r = 0 THEN -q ELSE -q - 1

\* a / b on floats, b # 0
PyTrueDiv(a, b) == FloatV(a.n * b.d, a.d * b.n)

\* a and b, a or b, not a
PyAnd(a, b) == IF PyTruthy(a) THEN b ELSE a
PyOr(a, b) == IF PyTruthy(a) THEN a ELSE b
PyNot(a) == BoolV(~PyTruthy(a))

---------------------------------------------------------------------------
(* f"{value}": the text of a value, as code points.                        *)

RECURSIVE NatStr(_)
NatStr(i) == IF i < 10 THEN <<48 + i>> ELSE NatStr(i \div 10) \o <<48 + (i % 10)>>

IntStr(i) == IF i < 0 THEN <<45>> \o NatStr(-i) ELSE NatStr(i)

\* the digits after the point, by long division; a float's text holds at
\* most 16 of them here (Python prints the shortest text that reads back
\* to the same double)
RECURSIVE FracStr(_, _, _)
FracStr(r, d, left) ==
    IF r = 0 \/ left = 0 THEN <<>>
    ELSE <<48 + ((10 * r) \div d)>> \o FracStr((10 * r) % d, d, left - 1)

FloatStr(v) ==
    LET a == Abs(v.n)
        frac == FracStr(a % v.d, v.d, 16)
    IN  (IF v.n < 0 THEN <<45>> ELSE <<>>) \o NatStr(a \div v.d) \o <<46>>
            \o (IF frac = <<>> THEN <<48>> ELSE frac)

PyStr(v) ==
    CASE v.py = "NoneType" -> <<78, 111, 110, 101>>
      [] v.py = "int" -> IntStr(v.n)
      [] v.py = "float" -> FloatStr(v)
      [] v.py = "str" -> v.s
      [] OTHER -> IF v.b THEN <<84, 114, 117, 101>> ELSE <<70, 97, 108, 115, 101>>

UnitText == <<85, 110, 105, 116>>

---------------------------------------------------------------------------
(* State: the chain of bindings.  A State object is a heap cell            *)
(* [variable_name, value, next_state] with value the pair                  *)
(* <<variable_value, variable_type>>; reference 0 is the EmptyState.       *)

EmptyState == 0

NoBinding == <<>>      \* Python's None, as returned by get_value

\* State.set_value: a new State in front of self; self is left as it is
set_value_inplace(h, self, variable_name, variable_value, variable_type) ==
    IF self # EmptyState /\ h[self].variable_name = variable_name
    THEN [heap |-> [h EXCEPT ![self].value = <<variable_value, variable_type>>],
          ref |-> self]
    ELSE [heap |-> Append(h, [variable_name |-> variable_name,
                              value |-> <<variable_value, variable_type>>,
                              next_state |-> self]),
          ref |-> Len(h) + 1]
set_value(h, self, variable_name, variable_value, variable_type) ==
    [heap |-> Append(h, [variable_name |-> variable_name,
                         value |-> <<variable_value, variable_type>>,
                         next_state |-> self]),
     ref |-> Len(h) + 1]

\* State.get_value: the value of the first State of the chain that binds
\* the name, None when the walk reaches the EmptyState
get_value_any(h, self, variable_name) ==
    IF self = EmptyState THEN NoBinding ELSE h[self].value
RECURSIVE get_value(_, _, _)
get_value(h, self, variable_name) ==
    IF self = EmptyState THEN NoBinding
    ELSE IF h[self].variable_name = variable_name THEN h[self].value
    ELSE get_value(h, h[self].next_state, variable_name)

---------------------------------------------------------------------------
(* Expressions (stimpl.expression): one record shape per node class.       *)

Ren == [kind |-> "Ren"]
IntLiteral(l) == [kind |-> "IntLiteral", literal |-> IntV(l)]
FloatingPointLiteral(num, den) ==
    [kind |-> "FloatingPointLiteral", literal |-> FloatV(num, den)]
StringLiteral(l) == [kind |-> "StringLiteral", literal |-> StrV(l)]
BooleanLiteral(l) == [kind |-> "BooleanLiteral", literal |-> BoolV(l)]
PrintOf(e) == [kind |-> "Print", to_print |-> e]
Sequence(exprs) == [kind |-> "Sequence", exprs |-> exprs]
Program(exprs) == [kind |-> "Program", exprs |-> exprs]
Variable(name) == [kind |-> "Variable", variable_name |-> name]
Assign(variable, value) == [kind |-> "Assign", variable |-> variable, value |-> value]
Binary(kind, left, right) == [kind |-> kind, left |-> left, right |-> right]
Add(left, right) == Binary("Add", left, right)
Subtract(left, right) == Binary("Subtract", left, right)
Multiply(left, right) == Binary("Multiply", left, right)
Divide(left, right) == Binary("Divide", left, right)
And(left, right) == Binary("And", left, right)
Or(left, right) == Binary("Or", left, right)
Not(expr) == [kind |-> "Not", expr |-> expr]
If(condition, true, false) ==
    [kind |-> "If", condition |-> condition, true |-> true, false |-> false]
Lt(left, right) == Binary("Lt", left, right)
Lte(left, right) == Binary("Lte", left, right)
Gt(left, right) == Binary("Gt", left, right)
Gte(left, right) == Binary("Gte", left, right)
Eq(left, right) == Binary("Eq", left, right)
Ne(left, right) == Binary("Ne", left, right)
While(condition, body) == [kind |-> "While", condition |-> condition, body |-> body]
\* an Expr of no class that evaluate knows
Expr == [kind |-> "Expr"]

---------------------------------------------------------------------------
(* Activations of evaluate.                                                *)

Frame(expression, st) ==
    [expression |-> expression, state |-> st, pc |-> "start",
     left_result |-> NoneV, left_type |-> "Unit",
     final_value |-> NoneV, final_type |-> "Unit",
     current |-> st, idx |-> 0]

Top == stack[Len(stack)]

\* the top activation is at a node of this class
At(kind) == status = "running" /\ stack # <<>> /\ Top.expression.kind = kind

\* the triple the callee handed back to the top activation
Got == ret[1]

\* the top activation, now f, calls evaluate(expression, st)
Call(f, expression, st) ==
    /\ stack' = SubSeq(stack, 1, Len(stack) - 1) \o <<f, Frame(expression, st)>>
    /\ ret' = <<>>
    /\ UNCHANGED <<status, results>>

\* the top activation returns (value, type, st), to its caller or, from the
\* outermost activation, to the caller of evaluate
Return(value, type, st) ==
    /\ stack' = SubSeq(stack, 1, Len(stack) - 1)
    /\ IF Len(stack) = 1
       THEN /\ ret' = <<>>
            /\ status' = "returned"
            /\ results' = Append(results,
                    [status |-> "returned", error |-> "", value |-> value,
                     type |-> type, state |-> st])
       ELSE /\ ret' = <<[value |-> value, type |-> type, state |-> st]>>
            /\ UNCHANGED <<status, results>>

\* the top activation raises: no activation catches, so all of them unwind
Raise(error) ==
    /\ stack' = <<>>
    /\ ret' = <<>>
    /\ status' = "raised"
    /\ results' = Append(results,
            [status |-> "raised", error |-> error, value |-> NoneV,
             type |-> "Unit", state |-> EmptyState])

---------------------------------------------------------------------------
(* evaluate, case by case.                                                 *)

EvalRen ==
    /\ At("Ren")
    /\ Return(NoneV, "Unit", Top.state)
    /\ UNCHANGED <<program, state, heap, out>>

\* what a literal node evaluates to: its value, the tag of its class, and
\* the state it was given
LiteralResultEmpty(l, type, st) == [value |-> l, type |-> type, state |-> EmptyState]
LiteralResult(l, type, st) == [value |-> l, type |-> type, state |-> st]

EvalLiteral(kind, type) ==
    /\ At(kind)
    /\ LET r == LiteralResult(Top.expression.literal, type, Top.state)
       IN  Return(r.value, r.type, r.state)
    /\ UNCHANGED <<program, state, heap, out>>

EvalIntLiteral == EvalLiteral("IntLiteral", "Integer")
EvalFloatingPointLiteral == EvalLiteral("FloatingPointLiteral", "FloatingPoint")
EvalStringLiteral == EvalLiteral("StringLiteral", "String")
EvalBooleanLiteral == EvalLiteral("BooleanLiteral", "Boolean")

EvalPrint ==
    /\ At("Print")
    /\ IF Top.pc = "start"
       THEN /\ Call([Top EXCEPT !.pc = "to_print"], Top.expression.to_print, Top.state)
            /\ UNCHANGED out
       ELSE /\ out' = Append(out, IF Got.type = "Unit" THEN UnitText
                                  ELSE PyStr(Got.value))
            /\ Return(Got.value, Got.type, Got.state)
    /\ UNCHANGED <<program, state, heap>>

\* Sequence and Program: the for loop over exprs
EvalSequence ==
    /\ \/ At("Sequence")
       \/ At("Program")
    /\ LET exprs == Top.expression.exprs
           f == IF Top.pc = "start"
                THEN [Top EXCEPT !.final_value = NoneV, !.final_type = "Unit",
                                 !.current = Top.state, !.pc = "for"]
                ELSE [Top EXCEPT !.final_value = Got.value, !.final_type = Got.type,
                                 !.current = Got.state, !.idx = Top.idx + 1]
       IN  IF f.idx < Len(exprs)
           THEN Call(f, exprs[f.idx + 1], f.current)
           ELSE Return(f.final_value, f.final_type, f.current)
    /\ UNCHANGED <<program, state, heap, out>>

EvalVariable ==
    /\ At("Variable")
    /\ LET value == get_value(heap, Top.state, Top.expression.variable_name)
       IN  IF value = NoBinding
           THEN Raise("InterpSyntaxError")
           ELSE Return(value[1], value[2], Top.state)
    /\ UNCHANGED <<program, state, heap, out>>

\* whether two type tags are equal: tags are compared by kind (Type.__eq__
\* of stimpl.types)
TypeEq(t, u) == t = u

\* the test of line 118: the name is bound and its tag is not the value's
AssignMismatchNever(value_type, variable_type) == FALSE
AssignMismatch(value_type, variable_type) ==
    ~TypeEq(value_type, variable_type) /\ variable_type # "None"

EvalAssign ==
    /\ At("Assign")
    /\ IF Top.pc = "start"
       THEN /\ Call([Top EXCEPT !.pc = "value"], Top.expression.value, Top.state)
            /\ UNCHANGED heap
       ELSE LET name == Top.expression.variable.variable_name
                variable_from_state == get_value(heap, Got.state, name)
                variable_type == IF variable_from_state # NoBinding
                                 THEN variable_from_state[2] ELSE "None"
                new == set_value(heap, Got.state, name, Got.value, Got.type)
            IN  IF AssignMismatch(Got.type, variable_type)
                THEN Raise("InterpTypeError") /\ UNCHANGED heap
                ELSE /\ Len(heap) < MaxHeap
                     /\ heap' = new.heap
                     /\ Return(Got.value, Got.type, new.ref)
    /\ UNCHANGED <<program, state, out>>

\* the first two lines of every binary case: left is evaluated in the
\* state given, then right in the state left returned, whatever left's value
EvalOperandsShort ==
    IF Top.pc = "start"
    THEN Call([Top EXCEPT !.pc = "left"], Top.expression.left, Top.state)
    ELSE IF Top.expression.kind \in {"And", "Or"}
            /\ Got.type = "Boolean"
            /\ PyTruthy(Got.value) = (Top.expression.kind = "Or")
    THEN Return(Got.value, Got.type, Got.state)
    ELSE Call([Top EXCEPT !.pc = "right", !.left_result = Got.value,
                          !.left_type = Got.type],
              Top.expression.right, Got.state)
EvalOperands ==
    IF Top.pc = "start"
    THEN Call([Top EXCEPT !.pc = "left"], Top.expression.left, Top.state)
    ELSE Call([Top EXCEPT !.pc = "right", !.left_result = Got.value,
                          !.left_type = Got.type],
              Top.expression.right, Got.state)

EvalAdd ==
    /\ At("Add")
    /\ IF Top.pc # "right" THEN EvalOperands
       ELSE IF ~TypeEq(Top.left_type, Got.type) THEN Raise("InterpTypeError")
       ELSE IF Top.left_type \in {"Integer", "String", "FloatingPoint"}
       THEN Return(PyAdd(Top.left_result, Got.value), Top.left_type, Got.state)
       ELSE Raise("InterpTypeError")
    /\ UNCHANGED <<program, state, heap, out>>

EvalSubtract ==
    /\ At("Subtract")
    /\ IF Top.pc # "right" THEN EvalOperands
       ELSE IF ~TypeEq(Top.left_type, Got.type) THEN Raise("InterpTypeError")
       ELSE IF Top.left_type \in {"Integer", "FloatingPoint"}
       THEN Return(PySub(Top.left_result, Got.value), Top.left_type, Got.state)
       ELSE Raise("InterpTypeError")
    /\ UNCHANGED <<program, state, heap, out>>

EvalMultiply ==
    /\ At("Multiply")
    /\ IF Top.pc # "right" THEN EvalOperands
       ELSE IF ~TypeEq(Top.left_type, Got.type) THEN Raise("InterpTypeError")
       ELSE IF Top.left_type \in {"Integer", "FloatingPoint"}
       THEN Return(PyMul(Top.left_result, Got.value), Top.left_type, Got.state)
       ELSE Raise("InterpTypeError")
    /\ UNCHANGED <<program, state, heap, out>>

\* the zero test comes before the match on the tag, and it is Python's ==:
\* 0, 0.0 and False all equal 0
EvalDivide ==
    /\ At("Divide")
    /\ IF Top.pc # "right" THEN EvalOperands
       ELSE IF ~TypeEq(Top.left_type, Got.type) THEN Raise("InterpTypeError")
       ELSE IF PyEq(Got.value, IntV(0)) THEN Raise("InterpMathError")
       ELSE IF Top.left_type = "Integer"
       THEN Return(IntV(PyFloorDiv(Top.left_result.n, Got.value.n)),
                   Top.left_type, Got.state)
       ELSE IF Top.left_type = "FloatingPoint"
       THEN Return(PyTrueDiv(Top.left_result, Got.value), Top.left_type, Got.state)
       ELSE Raise("InterpTypeError")
    /\ UNCHANGED <<program, state, heap, out>>

EvalAnd ==
    /\ At("And")
    /\ IF Top.pc # "right" THEN EvalOperands
       ELSE IF ~TypeEq(Top.left_type, Got.type) THEN Raise("InterpTypeError")
       ELSE IF Top.left_type = "Boolean"
       THEN Return(PyAnd(Top.left_result, Got.value), Top.left_type, Got.state)
       ELSE Raise("InterpTypeError")
    /\ UNCHANGED <<program, state, heap, out>>

EvalOr ==
    /\ At("Or")
    /\ IF Top.pc # "right" THEN EvalOperands
       ELSE IF ~TypeEq(Top.left_type, Got.type) THEN Raise("InterpTypeError")
       ELSE IF Top.left_type = "Boolean"
       THEN Return(PyOr(Top.left_result, Got.value), Top.left_type, Got.state)
       ELSE Raise("InterpTypeError")
    /\ UNCHANGED <<program, state, heap, out>>

EvalNot ==
    /\ At("Not")
    /\ IF Top.pc = "start"
       THEN Call([Top EXCEPT !.pc = "expr"], Top.expression.expr, Top.state)
       ELSE IF Got.type = "Boolean"
       THEN Return(PyNot(Got.value), Got.type, Got.state)
       ELSE Raise("InterpTypeError")
    /\ UNCHANGED <<program, state, heap, out>>

EvalIf ==
    /\ At("If")
    /\ IF Top.pc = "start"
       THEN Call([Top EXCEPT !.pc = "condition"], Top.expression.condition, Top.state)
       ELSE IF Top.pc = "condition"
       THEN IF Got.type = "Boolean"
            THEN IF PyTruthy(Got.value)
                 THEN Call([Top EXCEPT !.pc = "branch"], Top.expression.true, Got.state)
                 ELSE Call([Top EXCEPT !.pc = "branch"], Top.expression.false, Got.state)
            ELSE Raise("InterpTypeError")
       ELSE Return(Got.value, Got.type, Got.state)
    /\ UNCHANGED <<program, state, heap, out>>

\* the five comparison cases differ in the operator applied to two values of
\* one tag and in the answer for two Units
EvalComparison(kind, unit) ==
    /\ At(kind)
    /\ IF Top.pc # "right" THEN EvalOperands
       ELSE IF ~TypeEq(Top.left_type, Got.type) THEN Raise("InterpTypeError")
       ELSE IF Top.left_type \in {"Integer", "Boolean", "String", "FloatingPoint"}
       THEN LET l == Top.left_result
                r == Got.value
                result == CASE kind = "Lt" -> PyLt(l, r)
                            [] kind = "Lte" -> PyLe(l, r)
                            [] kind = "Gt" -> PyGt(l, r)
                            [] kind = "Gte" -> PyGe(l, r)
                            [] kind = "Eq" -> PyEq(l, r)
                            [] kind = "Ne" -> ~PyEq(l, r)
            IN  Return(BoolV(result), "Boolean", Got.state)
       ELSE IF Top.left_type = "Unit"
       THEN Return(BoolV(unit), "Boolean", Got.state)
       ELSE Raise("InterpTypeError")
    /\ UNCHANGED <<program, state, heap, out>>

EvalLt == EvalComparison("Lt", FALSE)
EvalLte == EvalComparison("Lte", TRUE)
EvalGt == EvalComparison("Gt", FALSE)
EvalGte == EvalComparison("Gte", TRUE)
EvalEq == EvalComparison("Eq", TRUE)
EvalNe == EvalComparison("Ne", FALSE)

\* what While returns once its condition is false: the value, type and state
\* of the last body evaluated (None, Unit and the state given when there was
\* none); new_state, the state the condition returned, is dropped
WhileResultNew(f, new_state) ==
    [value |-> f.final_value, type |-> f.final_type, state |-> new_state]
WhileResult(f, new_state) ==
    [value |-> f.final_value, type |-> f.final_type, state |-> f.current]

EvalWhile ==
    /\ At("While")
    /\ IF Top.pc = "start"
       THEN Call([Top EXCEPT !.current = Top.state, !.final_value = NoneV,
                             !.final_type = "Unit", !.pc = "condition"],
                 Top.expression.condition, Top.state)
       ELSE IF Top.pc = "condition"
       THEN IF Got.type = "Boolean"
            THEN IF ~PyTruthy(Got.value)
                 THEN LET r == WhileResult(Top, Got.state)
                      IN  Return(r.value, r.type, r.state)
                 ELSE Call([Top EXCEPT !.pc = "body"], Top.expression.body, Got.state)
            ELSE Raise("InterpTypeError")
       ELSE Call([Top EXCEPT !.final_value = Got.value, !.final_type = Got.type,
                             !.current = Got.state, !.pc = "condition"],
                 Top.expression.condition, Got.state)
    /\ UNCHANGED <<program, state, heap, out>>

\* case _
EvalUnhandled ==
    /\ At("Expr")
    /\ Raise("InterpSyntaxError")
    /\ UNCHANGED <<program, state, heap, out>>

\* the caller, holding on to program and state, calls evaluate once more
Reevaluate ==
    /\ status # "running"
    /\ Len(results) < MaxRuns
    /\ stack' = <<Frame(program, state)>>
    /\ status' = "running"
    /\ ret' = <<>>
    /\ UNCHANGED <<program, state, heap, out, results>>

---------------------------------------------------------------------------
(* The programs and states evaluate is called with.                        *)

X == Variable("x")
Y == Variable("y")

Ints == [i \in 1..(2 * MaxInt + 1) |-> IntLiteral(i - MaxInt - 1)]

Literals ==
    <<Ren, BooleanLiteral(FALSE), BooleanLiteral(TRUE),
      StringLiteral(<<>>), StringLiteral(<<97>>), StringLiteral(<<97, 98>>),
      FloatingPointLiteral(0, 1), FloatingPointLiteral(1, 2),
      FloatingPointLiteral(-3, 2)>> \o Ints

Atoms == Literals \o <<X, Y>>

BinaryKinds ==
    <<"Add", "Subtract", "Multiply", "Divide", "And", "Or",
      "Lt", "Lte", "Gt", "Gte", "Eq", "Ne">>

\* the pairs and triples of indices, in sequence
Pairs(m, n) == [k \in 1..(m * n) |-> <<((k - 1) \div n) + 1, ((k - 1) % n) + 1>>]
Triples(l, m, n) ==
    [k \in 1..(l * m * n) |->
        <<((k - 1) \div (m * n)) + 1, (((k - 1) \div n) % m) + 1, ((k - 1) % n) + 1>>]

\* every binary node over two atoms
Binaries ==
    LET ix == Triples(Len(BinaryKinds), Len(Atoms), Len(Atoms))
    IN  [k \in 1..Len(ix) |->
            Binary(BinaryKinds[ix[k][1]], Atoms[ix[k][2]], Atoms[ix[k][3]])]

\* every one-operand node over an atom
Singles ==
    LET ix == Pairs(6, Len(Atoms))
    IN  [k \in 1..Len(ix) |->
            LET a == Atoms[ix[k][2]]
            IN  CASE ix[k][1] = 1 -> Not(a)
                  [] ix[k][1] = 2 -> PrintOf(a)
                  [] ix[k][1] = 3 -> Assign(X, a)
                  [] ix[k][1] = 4 -> Sequence(<<a, Assign(Y, a)>>)
                  [] ix[k][1] = 5 -> Program(<<a>>)
                  [] OTHER -> a]

\* x assigned twice
Reassigns ==
    LET ix == Pairs(Len(Literals), Len(Literals))
    IN  [k \in 1..Len(ix) |->
            Program(<<Assign(X, Literals[ix[k][1]]), Assign(X, Literals[ix[k][2]])>>)]

\* And and Or whose operands write or bind
LogicLeft ==
    <<BooleanLiteral(FALSE), BooleanLiteral(TRUE), Assign(X, BooleanLiteral(TRUE)),
      Assign(X, BooleanLiteral(FALSE)), IntLiteral(0)>>
LogicRight ==
    <<PrintOf(BooleanLiteral(TRUE)), PrintOf(X), Assign(Y, BooleanLiteral(FALSE)), X,
      PrintOf(Assign(Y, BooleanLiteral(TRUE)))>>
Logics ==
    LET ix == Triples(2, Len(LogicLeft), Len(LogicRight))
    IN  [k \in 1..Len(ix) |->
            Binary(IF ix[k][1] = 1 THEN "And" ELSE "Or",
                   LogicLeft[ix[k][2]], LogicRight[ix[k][3]])]

\* If and While whose conditions and branches write or bind
Conditions ==
    <<BooleanLiteral(TRUE), BooleanLiteral(FALSE), X, IntLiteral(1),
      Assign(Y, BooleanLiteral(TRUE)), Not(Assign(Y, BooleanLiteral(TRUE))),
      Eq(Assign(X, IntLiteral(1)), IntLiteral(1))>>
Branches ==
    <<Ren, PrintOf(Y), Assign(X, IntLiteral(2)), Y>>
Ifs ==
    LET ix == Triples(Len(Conditions), Len(Branches), Len(Branches))
    IN  [k \in 1..Len(ix) |->
            If(Conditions[ix[k][1]], Branches[ix[k][2]], Branches[ix[k][3]])]

LoopConditions ==
    <<BooleanLiteral(FALSE), IntLiteral(0), Y, Assign(Y, BooleanLiteral(FALSE)),
      Lt(Assign(X, IntLiteral(1)), IntLiteral(0)),
      Lt(Assign(X, Add(X, IntLiteral(1))), IntLiteral(3)),
      Lt(X, X)>>
LoopBodies ==
    <<Ren, PrintOf(IntLiteral(1)), Assign(Y, BooleanLiteral(FALSE)),
      Assign(X, Add(X, IntLiteral(1))), Sequence(<<PrintOf(X), Assign(X, IntLiteral(0))>>)>>
Whiles ==
    LET ix == Pairs(Len(LoopConditions), Len(LoopBodies))
    IN  [k \in 1..Len(ix) |-> While(LoopConditions[ix[k][1]], LoopBodies[ix[k][2]])]

\* x counted from 0 up to N
Counter(N) ==
    Program(<<Assign(X, IntLiteral(0)),
              While(Lt(X, IntLiteral(N)), Assign(X, Add(X, IntLiteral(1))))>>)
Counters == [k \in 1..(MaxN + 1) |-> Counter(k - 1)]

\* integer division over a wider range
Divisions ==
    LET w == 2 * MaxDiv + 1
        ix == Pairs(w, w)
    IN  [k \in 1..Len(ix) |->
            Divide(IntLiteral(ix[k][1] - MaxDiv - 1), IntLiteral(ix[k][2] - MaxDiv - 1))]

\* deeper nodes, and the nodes evaluate does not know
Others ==
    <<Expr, Sequence(<<>>), Program(<<>>), Sequence(<<Expr>>),
      Add(Add(X, IntLiteral(1)), Multiply(X, IntLiteral(2))),
      Not(Lt(X, Add(X, IntLiteral(1)))),
      If(Lte(X, IntLiteral(1)), Subtract(X, IntLiteral(1)), Divide(X, IntLiteral(2))),
      While(Lt(X, IntLiteral(0)), X),
      Sequence(<<X, Or(Gt(X, IntLiteral(1)), Ne(X, IntLiteral(2)))>>),
      Program(<<Assign(X, IntLiteral(1)), Assign(Y, X), Assign(X, Add(X, Y)),
                PrintOf(X)>>)>>

Programs ==
    Binaries \o Singles \o Reassigns \o Logics \o Ifs \o Whiles \o Counters
        \o Divisions \o Others

\* the chain of States that binds these <<name, value, type>>, the first
\* innermost last: what evaluating Assigns of them in turn constructs
Chain(bindings) ==
    [i \in 1..Len(bindings) |->
        [variable_name |-> bindings[i][1],
         value |-> <<bindings[i][2], bindings[i][3]>>,
         next_state |-> i - 1]]

InitHeaps ==
    <<Chain(<<>>),
      Chain(<<<<"x", IntV(1), "Integer">>>>),
      Chain(<<<<"x", IntV(1), "Integer">>, <<"y", BoolV(FALSE), "Boolean">>,
              <<"x", IntV(2), "Integer">>>>),
      Chain(<<<<"y", StrV(<<97>>), "String">>, <<"x", BoolV(TRUE), "Boolean">>>>)>>

Init ==
    /\ \E p \in 1..Len(Programs) : program = Programs[p]
    /\ \E h \in 1..Len(InitHeaps) : heap = InitHeaps[h]
    /\ state = Len(heap)
    /\ stack = <<Frame(program, state)>>
    /\ ret = <<>>
    /\ out = <<>>
    /\ status = "running"
    /\ results = <<>>

Next ==
    \/ EvalRen
    \/ EvalIntLiteral
    \/ EvalFloatingPointLiteral
    \/ EvalStringLiteral
    \/ EvalBooleanLiteral
    \/ EvalPrint
    \/ EvalSequence
    \/ EvalVariable
    \/ EvalAssign
    \/ EvalAdd
    \/ EvalSubtract
    \/ EvalMultiply
    \/ EvalDivide
    \/ EvalAnd
    \/ EvalOr
    \/ EvalNot
    \/ EvalIf
    \/ EvalLt
    \/ EvalLte
    \/ EvalGt
    \/ EvalGte
    \/ EvalEq
    \/ EvalNe
    \/ EvalWhile
    \/ EvalUnhandled
    \/ Reevaluate

Spec == Init /\ [][Next]_vars

\* the counting programs alone, with the cases of evaluate they reach;
\* evaluate is sequential code: while a step is possible, one is taken
CounterInit ==
    /\ \E p \in 1..Len(Counters) : program = Counters[p]
    /\ \E h \in 1..Len(InitHeaps) : heap = InitHeaps[h]
    /\ state = Len(heap)
    /\ stack = <<Frame(program, state)>>
    /\ ret = <<>>
    /\ out = <<>>
    /\ status = "running"
    /\ results = <<>>

CounterNext ==
    \/ EvalIntLiteral
    \/ EvalSequence
    \/ EvalVariable
    \/ EvalAssign
    \/ EvalAdd
    \/ EvalLt
    \/ EvalWhile
    \/ Reevaluate

CounterSpec == CounterInit /\ [][CounterNext]_vars /\ WF_vars(CounterNext)

---------------------------------------------------------------------------
(* Vocabulary of the properties.                                           *)

Names == {"x", "y"}

LiteralKinds ==
    {"Ren", "IntLiteral", "FloatingPointLiteral", "StringLiteral", "BooleanLiteral"}

IsLiteral(e) == e.kind \in LiteralKinds

\* the tag and the value the specification gives a literal node
TagOf(e) ==
    CASE e.kind = "Ren" -> "Unit"
      [] e.kind = "IntLiteral" -> "Integer"
      [] e.kind = "FloatingPointLiteral" -> "FloatingPoint"
      [] e.kind = "StringLiteral" -> "String"
      [] e.kind = "BooleanLiteral" -> "Boolean"

ValueOf(e) == IF e.kind = "Ren" THEN NoneV ELSE e.literal

Finished == status # "running"

Last == results[Len(results)]

Returned(r) == r.status = "returned"

RaisedWith(r, error) == r.status = "raised" /\ r.error = error

\* the binding of a name in the state the caller passed
Bound(name) == get_value(heap, state, name)

\* the names bound along the chain of a state
RECURSIVE ChainNames(_, _)
ChainNames(h, s) ==
    IF s = EmptyState THEN {} ELSE {h[s].variable_name} \cup ChainNames(h, h[s].next_state)

\* Program [Assign(x, a), Assign(x, b)] over two literals
IsReassign ==
    /\ program.kind = "Program"
    /\ Len(program.exprs) = 2
    /\ \A i \in 1..2 :
          /\ program.exprs[i].kind = "Assign"
          /\ program.exprs[i].variable.variable_name = "x"
          /\ IsLiteral(program.exprs[i].value)

\* a binary node of one of these kinds over two literals
IsLiteralBinary(kinds) ==
    /\ program.kind \in kinds
    /\ IsLiteral(program.left)
    /\ IsLiteral(program.right)

---------------------------------------------------------------------------

(* C1 as the specification states it: evaluating Variable(name) where the  *)
(* chain holds no binding for name fails with an UnboundName kind of its   *)
(* own, none of the kinds raised elsewhere (the Syntax kind of an          *)
(* unrecognized expression among them).                                    *)
C1_UnboundNameIsOwnKind ==
    (/\ Finished
     /\ program.kind = "Variable"
     /\ program.variable_name \notin ChainNames(heap, state))
        => /\ Last.status = "raised"
           /\ Last.error \notin {"InterpSyntaxError", "InterpTypeError", "InterpMathError"}

(* C1, amended: evaluating Variable(name) where the chain holds no binding *)
(* for name fails with the Syntax kind, the very kind an unrecognized      *)
(* expression fails with; every failure is of one of three kinds.          *)
C1_UnboundNameIsSyntax ==
    \A k \in 1..Len(results) :
        /\ (program.kind = "Variable" /\ program.variable_name \notin ChainNames(heap, state))
              => RaisedWith(results[k], "InterpSyntaxError")
        /\ program.kind = "Expr" => RaisedWith(results[k], "InterpSyntaxError")
        /\ results[k].status = "raised"
              => results[k].error \in {"InterpSyntaxError", "InterpTypeError",
                                       "InterpMathError"}

C1_Witness ==
    /\ status = "raised"
    /\ program.kind = "Variable"
    /\ state # EmptyState
    /\ program.variable_name \notin ChainNames(heap, state)
    /\ Last.error = "InterpSyntaxError"

---------------------------------------------------------------------------

(* C2: with x bound under tag T (by the state given or by a first Assign), *)
(* Assign(x, e) with e of another tag fails with TypeMismatch and          *)
(* constructs no binding; with e of tag T it succeeds and the returned     *)
(* state looks x up as the value just assigned.                            *)
C2_AssignStability ==
    (IsReassign /\ Finished) =>
        LET a == program.exprs[1].value
            b == program.exprs[2].value
            okA == Bound("x") = NoBinding \/ Bound("x")[2] = TagOf(a)
            okB == TagOf(b) = TagOf(a)
            made == IF ~okA THEN 0 ELSE IF ~okB THEN 1 ELSE 2
        IN  /\ Len(heap) = state + Len(results) * made
            /\ \A k \in 1..Len(results) :
                  IF okA /\ okB
                  THEN /\ Returned(results[k])
                       /\ get_value(heap, results[k].state, "x")
                              = <<ValueOf(b), TagOf(b)>>
                  ELSE RaisedWith(results[k], "InterpTypeError")

C2_Witness ==
    /\ IsReassign
    /\ status = "returned"
    /\ Bound("x") # NoBinding
    /\ ValueOf(program.exprs[1].value) # ValueOf(program.exprs[2].value)
    /\ get_value(heap, Last.state, "x")[1] = ValueOf(program.exprs[2].value)

---------------------------------------------------------------------------

(* C3: no step changes a State that exists: its binding and its parent     *)
(* stay, and so does what every name looks up as from it.  After           *)
(* Assign x=1 then Assign x=2 the state the first Assign returned looks x  *)
(* up as 1 and the state the second returned as 2.                         *)
C3_Persistent ==
    /\ [][/\ Len(heap') >= Len(heap)
          /\ \A e \in 0..Len(heap) :
                /\ e # EmptyState => heap'[e] = heap[e]
                /\ \A n \in Names : get_value(heap', e, n) = get_value(heap, e, n)]_vars
    /\ [](  (/\ IsReassign
             /\ status = "returned"
             /\ Bound("x") = NoBinding
             /\ program.exprs[1].value = IntLiteral(1)
             /\ program.exprs[2].value = IntLiteral(2))
          => /\ get_value(heap, state + 1, "x") = <<IntV(1), "Integer">>
             /\ get_value(heap, results[1].state, "x") = <<IntV(2), "Integer">>)

C3_Witness ==
    /\ IsReassign
    /\ status = "returned"
    /\ Len(results) = 2
    /\ program.exprs[1].value = IntLiteral(1)
    /\ program.exprs[2].value = IntLiteral(2)
    /\ get_value(heap, state + 1, "x") = <<IntV(1), "Integer">>
    /\ get_value(heap, results[1].state, "x") = <<IntV(2), "Integer">>

---------------------------------------------------------------------------

(* C4: when evaluate succeeds, the state it returns is the state given     *)
(* extended by one binding per Assign executed, in execution order: the    *)
(* States constructed during the call form one chain from the returned     *)
(* state down to the state given.                                          *)
C4_ThreadingLosesNothing ==
    (status = "returned" /\ Len(results) = 1) =>
        /\ results[1].state = Len(heap)
        /\ \A i \in (state + 1)..Len(heap) : heap[i].next_state = i - 1

---------------------------------------------------------------------------

(* C5: And and Or never short-circuit: whatever the left operand returned, *)
(* the next step evaluates the right operand, in the state the left one    *)
(* returned; so with a false (And) or true (Or) literal on the left, a     *)
(* Print on the right has written its line in every finished evaluation.   *)
C5_NoShortCircuit ==
    /\ [][((At("And") \/ At("Or")) /\ Top.pc = "left")
            => /\ Len(stack') = Len(stack) + 1
               /\ stack'[Len(stack')].expression = Top.expression.right
               /\ stack'[Len(stack')].state = Got.state
               /\ stack'[Len(stack')].pc = "start"]_vars
    /\ [](  (/\ Finished
             /\ program.kind \in {"And", "Or"}
             /\ program.left.kind = "BooleanLiteral"
             /\ program.right = PrintOf(BooleanLiteral(TRUE)))
          => /\ out = [k \in 1..Len(results) |-> PyStr(BoolV(TRUE))]
             /\ Returned(Last)
             /\ Last.type = "Boolean")

C5_Witness ==
    /\ status = "returned"
    /\ program.kind = "And"
    /\ program.left = BooleanLiteral(FALSE)
    /\ program.right.kind = "Print"
    /\ out = <<PyStr(BoolV(TRUE))>>
    /\ Last.value = BoolV(FALSE)

---------------------------------------------------------------------------

(* C6: Subtract, Multiply and Divide of two operands of one tag among      *)
(* String, Boolean and Unit fail with TypeMismatch, whatever the values.   *)
C6_ArithmeticRejectsNonNumbers ==
    (/\ Finished
     /\ IsLiteralBinary({"Subtract", "Multiply", "Divide"})
     /\ TagOf(program.left) = TagOf(program.right)
     /\ TagOf(program.left) \in {"String", "Boolean", "Unit"})
        => RaisedWith(Last, "InterpTypeError")

---------------------------------------------------------------------------
\* q is the floor of a / b, b # 0
IsFloor(q, a, b) ==
    IF b > 0 THEN q * b <= a /\ a < (q + 1) * b
    ELSE q * b >= a /\ a > (q + 1) * b

(* C7: Divide(Integer a, Integer b) fails with DivideByZero exactly when   *)
(* b = 0 and otherwise returns the floor of a / b, tagged Integer, in the  *)
(* state it was given.                                                     *)
C7_IntegerDivisionFloors ==
    (/\ program.kind = "Divide"
     /\ program.left.kind = "IntLiteral"
     /\ program.right.kind = "IntLiteral")
        => \A k \in 1..Len(results) :
              LET a == program.left.literal.n
                  b == program.right.literal.n
                  r == results[k]
              IN  IF b = 0 THEN RaisedWith(r, "InterpMathError")
                  ELSE /\ Returned(r)
                       /\ r.type = "Integer"
                       /\ r.state = state
                       /\ r.value.py = "int"
                       /\ IsFloor(r.value.n, a, b)

C7_Witness ==
    /\ status = "returned"
    /\ program.kind = "Divide"
    /\ program.left = IntLiteral(-5)
    /\ program.right = IntLiteral(2)
    /\ Last.value = IntV(-3)

---------------------------------------------------------------------------
\* conditions that are Boolean false when first evaluated in the state given
FirstCheckFalse(c) ==
    \/ c = BooleanLiteral(FALSE)
    \/ /\ c = Assign(Y, BooleanLiteral(FALSE))
       /\ Bound("y") = NoBinding \/ Bound("y")[2] = "Boolean"
    \/ /\ c = Lt(Assign(X, IntLiteral(1)), IntLiteral(0))
       /\ Bound("x") = NoBinding \/ Bound("x")[2] = "Integer"
    \/ /\ c = Lt(X, X)
       /\ Bound("x") # NoBinding

\* the bindings one evaluation of such a condition constructs
ConditionAssigns(c) == IF c.kind = "Assign" \/ c = Lt(Assign(X, IntLiteral(1)), IntLiteral(0))
                       THEN 1 ELSE 0

(* C8: a While whose condition is Boolean false at the first check returns *)
(* (None, Unit, the state given) and never evaluates its body: the body    *)
(* writes nothing and binds nothing.                                       *)
C8_FalseLoopReturnsStateGiven ==
    (program.kind = "While" /\ FirstCheckFalse(program.condition)) =>
        /\ stack # <<>> => stack[1].pc # "body"
        /\ out = <<>>
        /\ Finished =>
              Len(heap) = state + Len(results) * ConditionAssigns(program.condition)
        /\ \A k \in 1..Len(results) :
              /\ Returned(results[k])
              /\ results[k].value = NoneV
              /\ results[k].type = "Unit"
              /\ results[k].state = state

C8_Witness ==
    /\ status = "returned"
    /\ program.kind = "While"
    /\ program.condition = Assign(Y, BooleanLiteral(FALSE))
    /\ program.body.kind = "Print"
    /\ state # EmptyState
    /\ out = <<>>
    /\ Len(heap) > state
    /\ Last.state = state

---------------------------------------------------------------------------

(* C9: for every N in 0 .. MaxN the counting program, run from the empty   *)
(* state, terminates; the loop body is evaluated exactly N times (N + 1    *)
(* bindings are constructed) and the returned state looks x up as          *)
(* (N, Integer).                                                           *)
C9_CounterTerminates ==
    \A N \in 0..MaxN :
        /\ (program = Counter(N) /\ state = EmptyState /\ status = "running")
              ~> (status = "returned")
        /\ [](  (program = Counter(N) /\ state = EmptyState /\ Finished)
              => /\ Returned(Last)
                 /\ get_value(heap, Last.state, "x") = <<IntV(N), "Integer">>
                 /\ Len(heap) = Len(results) * (N + 1))

C9_Witness ==
    /\ program = Counter(3)
    /\ state = EmptyState
    /\ status = "returned"
    /\ get_value(heap, Last.state, "x") = <<IntV(3), "Integer">>
    /\ Last.value = IntV(3)

---------------------------------------------------------------------------
\* no Assign and no Print node in e
RECURSIVE Pure(_)
Pure(e) ==
    CASE e.kind \in {"Assign", "Print"} -> FALSE
      [] e.kind \in {"Sequence", "Program"} -> \A i \in 1..Len(e.exprs) : Pure(e.exprs[i])
      [] e.kind \in {"Add", "Subtract", "Multiply", "Divide", "And", "Or",
                     "Lt", "Lte", "Gt", "Gte", "Eq", "Ne"} -> Pure(e.left) /\ Pure(e.right)
      [] e.kind = "Not" -> Pure(e.expr)
      [] e.kind = "If" -> Pure(e.condition) /\ Pure(e.true) /\ Pure(e.false)
      [] e.kind = "While" -> Pure(e.condition) /\ Pure(e.body)
      [] OTHER -> TRUE

(* C10: an expression with no Assign and no Print node, when it evaluates  *)
(* successfully, returns the very state it was given, constructs no State  *)
(* and writes nothing; evaluated again in that state it yields the same    *)
(* (value, type); a literal returns (its value, its tag, the state given). *)
C10_Purity ==
    Pure(program) =>
        /\ Len(heap) = state
        /\ out = <<>>
        /\ \A k \in 1..Len(results) :
              /\ Returned(results[k]) => results[k].state = state
              /\ results[k].status = results[1].status
              /\ results[k].value = results[1].value
              /\ results[k].type = results[1].type
              /\ IsLiteral(program) =>
                    /\ Returned(results[k])
                    /\ results[k].value = ValueOf(program)
                    /\ results[k].type = TagOf(program)

C10_Witness ==
    /\ Len(results) = 2
    /\ Returned(results[1])
    /\ Returned(results[2])
    /\ program.kind = "Add"
    /\ program.left.kind = "Variable"
    /\ state # EmptyState
    /\ results[2].state = state
    /\ results[2].value = results[1].value

---------------------------------------------------------------------------
\* the tags under which a name is bound along the chain of a state
RECURSIVE ChainTags(_, _, _)
ChainTags(h, s, name) ==
    IF s = EmptyState THEN {}
    ELSE (IF h[s].variable_name = name THEN {h[s].value[2]} ELSE {})
            \cup ChainTags(h, h[s].next_state, name)

\* how often a name is bound along the chain of a state
RECURSIVE ChainCount(_, _, _)
ChainCount(h, s, name) ==
    IF s = EmptyState THEN 0
    ELSE (IF h[s].variable_name = name THEN 1 ELSE 0)
            + ChainCount(h, h[s].next_state, name)

(* C11: in every state that exists at any point of an evaluation, the      *)
(* intermediate ones and the returned one, all bindings of one name along  *)
(* the chain carry one tag: no Assign, in a branch of an If or an          *)
(* iteration of a While either, adds a name under a second tag.            *)
C11_OneTagPerName ==
    \A e \in 1..Len(heap) :
        \A n \in Names : Cardinality(ChainTags(heap, e, n)) <= 1

C11_Witness ==
    /\ status = "returned"
    /\ program.kind = "While"
    /\ program.body.kind = "Assign"
    /\ Last.state # state
    /\ ChainCount(heap, Last.state, "x") >= 3
    /\ ChainTags(heap, Last.state, "x") = {"Integer"}

=============================================================================
